---- MODULE Spec2Model ----
(***************************************************************************)
(* Model of the three tc reconcilers (library/tc_qdisc.py,                 *)
(* library/tc_class.py, library/tc_filter.py) and of their helpers in      *)
(* module_utils/tc_utils.py.                                               *)
(*                                                                         *)
(* Text.  A token is a sequence of atoms; an atom is a one-character       *)
(* string, or a keyword of the tc output that holds no digit and no colon  *)
(* and is only ever compared whole.  A line is a sequence of tokens (the   *)
(* result of split(" ")), a listing is a sequence of lines (the result of  *)
(* split("\n") without the trailing empty string).  A command line is a    *)
(* sequence of tokens.                                                     *)
(***************************************************************************)
EXTENDS Integers, Sequences, FiniteSets, TLC

VARIABLES
    kernel,      \* the device's tc configuration: qdiscs, classes, filters
    netifaces,   \* whether the netifaces library can be imported on the host
    kind,        \* which module runs: "qdisc", "class", "filter" ("none" before the first run)
    desc,        \* module.params as given by the caller
    params,      \* module.params as main() sees them (ceil is defaulted in place)
    check_mode,  \* module.check_mode
    pc,          \* position in main()
    action,      \* main()'s local `action`
    current,     \* main()'s current_qdisc / current_class / current_filter
    log,         \* every run_command of this run: [cmd, rc]
    command,     \* the command line built in the check-mode branch
    outcome,     \* how the run ended: exit_json / fail_json / traceback
    prev,        \* summary of the previous run
    nruns,       \* number of runs started
    start,       \* the kernel state this run started from
    twin         \* the run before, when this run repeats it from the same kernel state

vars == <<kernel, netifaces, kind, desc, params, check_mode, pc, action,
          current, log, command, outcome, prev, nruns, start, twin>>

----------------------------------------------------------------------------
(* Bounds *)

MaxRuns == 2

MaxRc == 1

----------------------------------------------------------------------------
(* Text helpers *)

W(s) == <<s>>

Digits == <<"0", "1", "2", "3", "4", "5", "6", "7", "8", "9">>

HexDigits == Digits \o <<"a", "b", "c", "d", "e", "f">>

IsDigit(c) == \E i \in 1..Len(Digits) : Digits[i] = c

DigitVal(c) == (CHOOSE i \in 1..Len(HexDigits) : HexDigits[i] = c) - 1

AllDigits(s) == \A i \in 1..Len(s) : IsDigit(s[i])

\* int(s, base) for a non-empty string of digits of that base
RECURSIVE ParseInt(_, _)
ParseInt(s, base) ==
    IF Len(s) = 0 THEN 0
    ELSE ParseInt(SubSeq(s, 1, Len(s) - 1), base) * base + DigitVal(s[Len(s)])

\* str(n) for n >= 0
RECURSIVE Dec(_)
Dec(n) == IF n < 10 THEN <<Digits[n + 1]>> ELSE Dec(n \div 10) \o <<Digits[(n % 10) + 1]>>

\* printf("%0<width>x", n)
RECURSIVE HexPad(_, _)
HexPad(n, width) ==
    IF width = 0 THEN <<>>
    ELSE HexPad(n \div 16, width - 1) \o <<HexDigits[(n % 16) + 1]>>

\* Python's `needle in token`
InToken(needle, token) ==
    \E i \in 1..(Len(token) - Len(needle) + 1) :
        SubSeq(token, i, i + Len(needle) - 1) = needle

\* Python's `needle in line` for a needle without blanks
InLine(needle, line) == \E t \in 1..Len(line) : InToken(needle, line[t])

\* Python's `needle in output` for a needle without blanks or newlines
InListing(needle, listing) == \E l \in 1..Len(listing) : InLine(needle, listing[l])

\* index of the first ":" of s, 0 when there is none
FirstColon(s) ==
    IF \E i \in 1..Len(s) : s[i] = ":"
    THEN CHOOSE i \in 1..Len(s) : s[i] = ":" /\ \A j \in 1..(i - 1) : s[j] # ":"
    ELSE 0

Colons(s) == Cardinality({i \in 1..Len(s) : s[i] = ":"})

\* s.partition(":") as a record
Partition(s) ==
    LET i == FirstColon(s) IN
    IF i = 0 THEN [head |-> s, sep |-> <<>>, tail |-> <<>>]
    ELSE [head |-> SubSeq(s, 1, i - 1), sep |-> <<":">>, tail |-> SubSeq(s, i + 1, Len(s))]

----------------------------------------------------------------------------
(* Rates (tc_class.py) *)

Uppers == <<"B", "G", "I", "K", "M", "P", "S", "T">>

Lowers == <<"b", "g", "i", "k", "m", "p", "s", "t">>

\* str.lower(), on the letters of the rate units
LowerChar(c) ==
    IF \E i \in 1..Len(Uppers) : Uppers[i] = c
    THEN Lowers[CHOOSE i \in 1..Len(Uppers) : Uppers[i] = c]
    ELSE c

Lower(s) == [i \in 1..Len(s) |-> LowerChar(s[i])]

\* ["".join(x) for _, x in itertools.groupby(s, key=str.isdigit)]
RECURSIVE GroupByIsDigit(_)
GroupByIsDigit(s) ==
    IF Len(s) = 0 THEN <<>>
    ELSE LET d == IsDigit(s[1])
             stop == IF \E i \in 1..Len(s) : IsDigit(s[i]) # d
                     THEN (CHOOSE i \in 1..Len(s) :
                              IsDigit(s[i]) # d /\ \A j \in 1..(i - 1) : IsDigit(s[j]) = d) - 1
                     ELSE Len(s)
         IN <<SubSeq(s, 1, stop)>> \o GroupByIsDigit(SubSeq(s, stop + 1, Len(s)))

\* A bit rate n * 10^e is kept as <<n, e>> with n not a multiple of 10 (or as
\* <<0, 0>>), so that two bit rates are equal as integers iff they are equal as
\* pairs: gbps = 8000000000 does not fit the model checker's 32-bit integers.
RECURSIVE Norm(_, _)
Norm(n, e) ==
    IF n = 0 THEN <<0, 0>>
    ELSE IF n % 10 = 0 THEN Norm(n \div 10, e + 1) ELSE <<n, e>>

\* RATES: unit -> factor, the factor m * 10^e written <<m, e>>
RATES ==
    <<[unit |-> <<"b", "i", "t">>,           factor |-> <<1, 0>>],
      [unit |-> <<"b", "p", "s">>,           factor |-> <<8, 0>>],
      [unit |-> <<"k", "b", "i", "t">>,      factor |-> <<1, 3>>],
      [unit |-> <<"k", "b", "p", "s">>,      factor |-> <<8, 3>>],
      [unit |-> <<"m", "b", "i", "t">>,      factor |-> <<1, 6>>],
      [unit |-> <<"m", "b", "p", "s">>,      factor |-> <<8, 6>>],
      [unit |-> <<"g", "b", "i", "t">>,      factor |-> <<1, 9>>],
      [unit |-> <<"g", "b", "p", "s">>,      factor |-> <<8, 9>>]>>

InRates(u) == \E i \in 1..Len(RATES) : RATES[i].unit = u

RateFactor(u) == RATES[CHOOSE i \in 1..Len(RATES) : RATES[i].unit = u].factor

\* the value standing for a raised exception
CRASH == <<-1, -1>>

\* _convert(rate): int(set[0]) * RATES[set[1].lower()], or the exception
\* (IndexError, ValueError, KeyError) it raises
Convert(rate) ==
    LET set == GroupByIsDigit(rate) IN
    IF Len(set) < 2 \/ ~AllDigits(set[1]) \/ ~InRates(Lower(set[2])) THEN CRASH
    ELSE LET f == RateFactor(Lower(set[2]))
         IN Norm(ParseInt(set[1], 10) * f[1], f[2])

\* _validate_rate / _validate_ceil on the string: <<ok, msg>>
ValidateRateString(s, what) ==
    LET g == GroupByIsDigit(s) IN
    IF Len(g) # 2 THEN <<FALSE, "Incorrect syntax">>
    ELSE IF ~AllDigits(g[1]) THEN <<FALSE, "No number specified in " \o what>>
    ELSE IF ~InRates(Lower(g[2])) THEN <<FALSE, "Invalid " \o what \o " specified">>
    ELSE <<TRUE, "">>

Validate_rate(p) == ValidateRateString(p.rate, "rate")

Validate_ceil(p) == ValidateRateString(p.ceil, "ceil")

----------------------------------------------------------------------------
(* The tc tool and the kernel state behind it, as far as the modules depend *)
(* on them: the listings they parse and the effect of the commands they run *)

PFIFO_FAST == W("pfifo_fast")

HTB == W("htb")

ROOT == W("root")

ZeroHandle == <<"0", ":">>

DefaultRoot == [disc |-> PFIFO_FAST, handle |-> ZeroHandle, attach |-> <<ROOT>>]

IngressQdisc ==
    [disc |-> W("ingress"), handle |-> <<"f", "f", "f", "f", ":">>,
     attach |-> <<W("parent"), <<"f", "f", "f", "f", ":", "f", "f", "f", "1">>>>]

\* the handle tc prints for a qdisc given as <major>:<minor>
QdiscHandleOf(h) == Partition(h).head \o <<":">>

\* tc's sprint_rate of the bit rate n * 10^e (n < 1000, so nothing is truncated)
RECURSIVE PrintRateLoop(_, _, _)
PrintRateLoop(n, e, i) ==
    IF i < 4 /\ e >= 3 THEN PrintRateLoop(n, e - 3, i + 1)
    ELSE LET mag == IF e = 0 THEN n ELSE IF e = 1 THEN n * 10 ELSE n * 100
             unit == <<<<>>, <<"K">>, <<"M">>, <<"G">>, <<"T">>>>[i + 1]
         IN Dec(mag) \o unit \o <<"b", "i", "t">>

PrintRate(r) == PrintRateLoop(r[1], r[2], 0)

\* one line of `tc qdisc show dev D`
RenderQdisc(q) ==
    <<W("qdisc"), q.disc, q.handle>> \o q.attach
    \o (IF q.attach = <<ROOT>> THEN <<W("refcnt"), <<"2">>>> ELSE <<W("----------------")>>)

\* an inner class (one with child classes) is printed without "prio"
IsInner(k, c) == \E i \in 1..Len(k.classes) : k.classes[i].parent = c.classid

\* one line of `tc class show dev D`
RenderClass(k, c) ==
    <<W("class"), HTB, c.classid>>
    \o (IF c.parent = ROOT THEN <<ROOT>> ELSE <<W("parent"), c.parent>>)
    \o (IF IsInner(k, c) THEN <<>> ELSE <<W("prio"), <<"0">>>>)
    \o <<W("rate"), PrintRate(c.rate), W("ceil"), PrintRate(c.ceil),
         W("burst"), <<"1", "6", "0", "0", "b">>, W("cburst"), <<"1", "6", "0", "0", "b">>>>

FilterHead(f, proto) ==
    <<W("filter"), W("parent"), f.parent, W("protocol"), W(proto), W("pref"), Dec(f.prio)>>

\* the lines of `tc filter show dev D` for one filter; a u32 filter is printed on
\* two lines, the second one starting with two blanks
RenderFilter(f) ==
    IF f.kind = "u32"
    THEN << FilterHead(f, "ip") \o <<W("u32"), W("fh"), <<"8", "0", "0", ":", ":", "8", "0", "0">>,
                                     W("order"), <<"2", "0", "4", "8">>, W("key"), W("ht"),
                                     <<"8", "0", "0">>, W("bkt"), <<"0">>, W("flowid"), f.flowid>>,
            << <<>>, <<>>, W("match"),
               HexPad(f.port, 8) \o <<"/">> \o <<"0", "0", "0", "0", "f", "f", "f", "f">>,
               W("at"), <<"2", "0">> >> >>
    ELSE << FilterHead(f, "all") \o <<W("cgroup"), W("handle"), <<"0", "x">> \o f.handle>> >>

RECURSIVE Concat(_)
Concat(ss) == IF Len(ss) = 0 THEN <<>> ELSE ss[1] \o Concat(Tail(ss))

QdiscListing(k) == [i \in 1..Len(k.qdiscs) |-> RenderQdisc(k.qdiscs[i])]

ClassListing(k) == [i \in 1..Len(k.classes) |-> RenderClass(k, k.classes[i])]

FilterListing(k) == Concat([i \in 1..Len(k.filters) |-> RenderFilter(k.filters[i])])

\* the token that follows keyword `key` in a command line (<<>> when absent)
ArgAfter(cmd, key) ==
    IF \E i \in 1..(Len(cmd) - 1) : cmd[i] = W(key)
    THEN cmd[(CHOOSE i \in 1..(Len(cmd) - 1) :
                  cmd[i] = W(key) /\ \A j \in 1..(i - 1) : cmd[j] # W(key)) + 1]
    ELSE <<>>

HasArg(cmd, key) == \E i \in 1..Len(cmd) : cmd[i] = W(key)

RemoveAt(s, i) == SubSeq(s, 1, i - 1) \o SubSeq(s, i + 1, Len(s))

RootQdisc(k) == k.qdiscs[1]

KnownDisciplines == {HTB, PFIFO_FAST, W("sfq")}

IsQdiscMinor(m) == m = <<>> \/ m = <<"0">>

ClassIdx(k, classid) == {i \in 1..Len(k.classes) : k.classes[i].classid = classid}

PrioIdx(k, prio) == {i \in 1..Len(k.filters) : k.filters[i].prio = prio}

RECURSIVE WithoutPrio(_, _)
WithoutPrio(fs, prio) ==
    IF Len(fs) = 0 THEN <<>>
    ELSE (IF fs[1].prio = prio THEN <<>> ELSE <<fs[1]>>) \o WithoutPrio(Tail(fs), prio)

RECURSIVE OnlyIngress(_)
OnlyIngress(qs) ==
    IF Len(qs) = 0 THEN <<>>
    ELSE (IF qs[1].disc = W("ingress") THEN <<qs[1]>> ELSE <<>>) \o OnlyIngress(Tail(qs))

\* filters are listed by ascending preference, a new one after its equals
InsertFilter(fs, f) ==
    LET n == Cardinality({i \in 1..Len(fs) : fs[i].prio <= f.prio})
    IN SubSeq(fs, 1, n) \o <<f>> \o SubSeq(fs, n + 1, Len(fs))

Rejected(k) == [ok |-> FALSE, kernel |-> k]

Accepted(k) == [ok |-> TRUE, kernel |-> k]

\* tc qdisc add|del dev D root|ingress [handle H DISC]
TcQdisc(cmd, k) ==
    LET act == cmd[3]
        attach == cmd[6]
    IN
    IF act = W("add") THEN
        LET h == Partition(ArgAfter(cmd, "handle"))
            disc == cmd[Len(cmd)]
        IN IF /\ attach = ROOT
              /\ RootQdisc(k).handle = ZeroHandle
              /\ disc \in KnownDisciplines
              /\ h.sep = <<":">> /\ h.head # <<>> /\ h.head # <<"0">> /\ IsQdiscMinor(h.tail)
           THEN Accepted([k EXCEPT !.qdiscs =
                    <<[disc |-> disc, handle |-> h.head \o <<":">>, attach |-> <<ROOT>>]>>
                    \o Tail(k.qdiscs)])
           ELSE Rejected(k)
    ELSE IF act = W("del") THEN
        IF attach = ROOT /\ RootQdisc(k).handle # ZeroHandle
        THEN Accepted([qdiscs |-> <<DefaultRoot>> \o OnlyIngress(Tail(k.qdiscs)),
                       classes |-> <<>>, filters |-> <<>>])
        ELSE IF attach = W("ingress") /\ OnlyIngress(k.qdiscs) # <<>>
        THEN Accepted([k EXCEPT !.qdiscs = <<RootQdisc(k)>>])
        ELSE Rejected(k)
    ELSE Rejected(k)

\* tc class add|change|del dev D parent P classid C [htb rate R ceil X]
TcClass(cmd, k) ==
    LET act == cmd[3]
        parent == Partition(ArgAfter(cmd, "parent"))
        classid == ArgAfter(cmd, "classid")
        cid == Partition(classid)
        under == IF IsQdiscMinor(parent.tail) THEN ROOT ELSE ArgAfter(cmd, "parent")
        shaped == /\ RootQdisc(k).disc = HTB
                  /\ RootQdisc(k).handle = parent.head \o <<":">>
                  /\ cid.head = parent.head /\ cid.tail # <<>>
        exists == ClassIdx(k, classid) # {}
        i == CHOOSE j \in ClassIdx(k, classid) : TRUE
    IN
    IF act = W("del") THEN
        IF /\ shaped /\ exists
           /\ \A j \in 1..Len(k.classes) : k.classes[j].parent # classid
           /\ \A j \in 1..Len(k.filters) :
                 k.filters[j].kind = "u32" => k.filters[j].flowid # classid
        THEN Accepted([k EXCEPT !.classes = RemoveAt(k.classes, i)])
        ELSE Rejected(k)
    ELSE
        LET rate == Convert(ArgAfter(cmd, "rate"))
            ceil == Convert(ArgAfter(cmd, "ceil"))
            wellformed == /\ shaped /\ cmd[10] = HTB /\ rate # CRASH /\ ceil # CRASH
                          /\ (under # ROOT => ClassIdx(k, under) # {})
        IN
        IF act = W("add") /\ wellformed /\ ~exists
        THEN Accepted([k EXCEPT !.classes = Append(k.classes,
                 [classid |-> classid, parent |-> under, rate |-> rate, ceil |-> ceil])])
        ELSE IF act = W("change") /\ wellformed /\ exists
        THEN Accepted([k EXCEPT !.classes[i].rate = rate, !.classes[i].ceil = ceil])
        ELSE Rejected(k)

\* tc filter add|del dev D parent P [protocol ip] prio N
\*    [u32 [match ip dport PORT 0xffff flowid F]] | [handle H cgroup]
TcFilter(cmd, k) ==
    LET act == cmd[3]
        parent == Partition(ArgAfter(cmd, "parent"))
        attached == /\ RootQdisc(k).disc = HTB
                    /\ RootQdisc(k).handle = parent.head \o <<":">>
                    /\ IsQdiscMinor(parent.tail)
        prio == ParseInt(ArgAfter(cmd, "prio"), 10)
        there == PrioIdx(k, prio)
        u32 == HasArg(cmd, "u32")
    IN
    IF act = W("del") THEN
        IF attached /\ there # {} /\ (u32 => \A i \in there : k.filters[i].kind = "u32")
        THEN Accepted([k EXCEPT !.filters = WithoutPrio(k.filters, prio)])
        ELSE Rejected(k)
    ELSE IF act = W("add") /\ u32 THEN
        LET port == ArgAfter(cmd, "dport") IN
        IF /\ attached /\ AllDigits(port) /\ ParseInt(port, 10) <= 65535
           /\ \A i \in there : k.filters[i].kind = "u32"
        THEN Accepted([k EXCEPT !.filters = InsertFilter(k.filters,
                 [kind |-> "u32", parent |-> parent.head \o <<":">>, prio |-> prio,
                  port |-> ParseInt(port, 10), flowid |-> ArgAfter(cmd, "flowid"),
                  handle |-> <<>>])])
        ELSE Rejected(k)
    ELSE IF act = W("add") /\ HasArg(cmd, "cgroup") THEN
        LET g == GroupByIsDigit(ArgAfter(cmd, "handle"))
            h == IF Len(g) > 0 /\ AllDigits(g[1]) THEN g[1] ELSE <<>>
        IN
        IF /\ attached /\ h # <<>>
           /\ \A i \in there : k.filters[i].kind = "cgroup" /\ k.filters[i].handle = h
        THEN Accepted(IF there # {} THEN k
                      ELSE [k EXCEPT !.filters = InsertFilter(k.filters,
                               [kind |-> "cgroup", parent |-> parent.head \o <<":">>,
                                prio |-> prio, port |-> 0, flowid |-> <<>>, handle |-> h])])
        ELSE Rejected(k)
    ELSE Rejected(k)

IsShow(cmd) == Len(cmd) >= 3 /\ cmd[3] = W("show")

IsIpA(cmd) == cmd[1] = W("ip")

IsMutating(cmd) == ~IsIpA(cmd) /\ cmd[3] \in {W("add"), W("change"), W("del")}

\* what a command line does to the kernel when tc accepts it
Tc(cmd, k) ==
    IF ~IsMutating(cmd) THEN Accepted(k)
    ELSE IF cmd[2] = W("qdisc") THEN TcQdisc(cmd, k)
    ELSE IF cmd[2] = W("class") THEN TcClass(cmd, k)
    ELSE TcFilter(cmd, k)

\* the exit codes module.run_command(cmd) can return: 0 only when tc accepts the
\* command; any command can fail
ExitCodes(cmd, k) == {rc \in 0..MaxRc : rc = 0 => Tc(cmd, k).ok}

\* the kernel after run_command(cmd) returned rc
After(cmd, k, rc) == IF rc = 0 THEN Tc(cmd, k).kernel ELSE k

----------------------------------------------------------------------------
(* module_utils/tc_utils.py *)

\* Python's None; str(None) is the text "None"
PyNone == W("None")

Falsy(v) == v = PyNone \/ v = <<>>

Build_generic_command(tc_type, act, device) ==
    <<W("tc"), W(tc_type), W(act), W("dev"), device>>

Build_qdisc_command(p, act) ==
    LET cmd == Build_generic_command("qdisc", act, p.device) IN
    IF act = "show" THEN cmd
    ELSE IF act = "del" THEN cmd \o <<p.qdisc>>
    ELSE cmd \o <<p.qdisc, W("handle"), p.handle, p.discipline>>

Build_class_command(p, act) ==
    LET cmd == Build_generic_command("class", act, p.device) IN
    IF act = "show" THEN cmd
    ELSE IF act = "del" THEN cmd \o <<W("parent"), p.parent, W("classid"), p.classid>>
    ELSE cmd \o <<W("parent"), p.parent, W("classid"), p.classid,
                  p.discipline, W("rate"), p.rate, W("ceil"), p.ceil>>

Build_filter_command(p, act) ==
    LET cmd == Build_generic_command("filter", act, p.device)
        ident == <<W("parent"), p.parent, W("protocol"), W("ip"),
                   W("prio"), Dec(p.priority), W("u32")>>
    IN
    IF act = "show" THEN cmd
    ELSE IF act = "del" THEN cmd \o ident
    ELSE cmd \o ident \o <<W("match"), W("ip"), W("dport"), Dec(p.port),
                           <<"0", "x", "f", "f", "f", "f">>, W("flowid"), p.flowid>>

Build_filter_cgroup_command(p, act) ==
    LET cmd == Build_generic_command("filter", act, p.device)
        ident == <<W("parent"), p.parent, W("prio"), Dec(p.priority)>>
    IN
    IF act = "show" THEN cmd
    ELSE IF act = "del" THEN cmd \o ident
    ELSE cmd \o ident \o <<W("handle"), p.handle, W("cgroup")>>

\* the command get_current(tc_type, module) runs
Get_current_command(tc_type, p) ==
    IF tc_type = "qdisc" THEN Build_qdisc_command(p, "show")
    ELSE IF tc_type = "class" THEN Build_class_command(p, "show")
    ELSE Build_filter_command(p, "show")

\* the interfaces of the host
Interfaces == {W("eth0"), W("lo")}

\* validate_device: dev in netifaces.interfaces(), or dev in the output of `ip a`
Validate_device(p) == p.device \in Interfaces

IpACommand == <<W("ip"), W("a")>>

Validate_handle(handle) ==
    IF Colons(handle) # 1 THEN FALSE
    ELSE LET minor == Partition(handle).tail
         IN IF minor # <<>> THEN minor = <<"0">> ELSE TRUE

\* validate_parent raises IndexError when the listing has no third word
Validate_parent_raises(p, listing) == Len(listing) = 0 \/ Len(listing[1]) < 3

\* validate_parent on the qdisc listing
Validate_parent(p, listing) ==
    LET part == Partition(p.parent) IN listing[1][3] = part.head \o part.sep

\* validate_classid raises ValueError when int(c_minor) does
Validate_classid_raises(p, handle) ==
    LET par == Partition(p.parent)
        cid == Partition(IF handle = "classid" THEN p.classid ELSE p.flowid)
    IN par.head = cid.head /\ cid.tail # <<>> /\ ~AllDigits(cid.tail)

\* validate_classid(module, handle)
Validate_classid(p, handle) ==
    LET par == Partition(p.parent)
        cid == Partition(IF handle = "classid" THEN p.classid ELSE p.flowid)
    IN
    IF par.head # cid.head THEN FALSE
    ELSE IF cid.tail = <<>> THEN FALSE
    ELSE ParseInt(cid.tail, 10) # 0

Set_action(state) == IF state = "present" THEN "add" ELSE "del"

----------------------------------------------------------------------------
(* The inspectors *)

STR_DEFAULT == "DEFAULT"

STR_NONE == "NONE"

STR_MATCH == "MATCH"

STR_CHANGE == "CHANGE"

STR_CRASH == "TRACEBACK"

\* _check_current_qdisc on the qdisc listing
Check_current_qdisc(p, listing) ==
    IF Len(listing) = 0 THEN STR_CRASH
    ELSE LET qdisc_set == listing[Len(listing)]
             part == Partition(p.handle)
         IN
         IF Len(qdisc_set) < 2 THEN STR_CRASH
         ELSE IF qdisc_set[2] = PFIFO_FAST THEN STR_DEFAULT
         ELSE IF qdisc_set[2] = p.discipline
                 /\ Len(qdisc_set) >= 3 /\ qdisc_set[3] = part.head \o part.sep
              THEN STR_MATCH
         ELSE IF qdisc_set[2] = p.discipline /\ Len(qdisc_set) < 3 THEN STR_CRASH
         ELSE STR_CHANGE

\* the lines of a listing that hold `needle`, in order
Idx(needle, listing) == {i \in 1..Len(listing) : InLine(needle, listing[i])}

Min(S) == CHOOSE x \in S : \A y \in S : x <= y

\* _check_current_class on the class listing
Check_current_class(p, listing) ==
    LET idx == Idx(p.classid, listing) IN
    IF idx = {} THEN STR_NONE
    ELSE LET cls == listing[Min(idx)] IN
         IF Len(cls) < 10 THEN STR_CRASH
         ELSE LET u_rate == Convert(p.rate)
                  c_rate == Convert(cls[8])
                  u_ceil == Convert(p.ceil)
                  c_ceil == Convert(cls[10])
              IN
              IF CRASH \in {u_rate, c_rate, u_ceil, c_ceil} THEN STR_CRASH
              ELSE IF u_rate # c_rate \/ u_ceil # c_ceil THEN STR_CHANGE
              ELSE STR_MATCH

IsHex(s) == s # <<>> /\ \A i \in 1..Len(s) : \E j \in 1..Len(HexDigits) : HexDigits[j] = s[i]

\* s.split("/")[0]
BeforeSlash(s) ==
    IF \E i \in 1..Len(s) : s[i] = "/"
    THEN SubSeq(s, 1, (CHOOSE i \in 1..Len(s) : s[i] = "/" /\ \A j \in 1..(i - 1) : s[j] # "/") - 1)
    ELSE s

\* mutant: the port of the listing is read as a decimal number
Check_current_filter_decimal(p, listing) ==
    LET idx == Idx(p.flowid, listing) IN
    IF idx = {} THEN STR_NONE
    ELSE LET fls == listing[Min(idx)]
             fl_match == IF Min(idx) < Len(listing) THEN listing[Min(idx) + 1] ELSE << <<>> >>
         IN
         IF Len(fls) < 7 \/ fls[7] = <<>> \/ ~AllDigits(fls[7]) THEN STR_CRASH
         ELSE IF p.priority # ParseInt(fls[7], 10) THEN STR_NONE
         ELSE IF Len(fl_match) < 4 \/ ~AllDigits(BeforeSlash(fl_match[4])) THEN STR_CRASH
         ELSE IF p.port # ParseInt(BeforeSlash(fl_match[4]), 10) THEN STR_CHANGE
         ELSE STR_MATCH

\* _check_current_filter on the filter listing
Check_current_filter(p, listing) ==
    LET idx == Idx(p.flowid, listing) IN
    IF idx = {} THEN STR_NONE
    ELSE LET fls == listing[Min(idx)]
             fl_match == IF Min(idx) < Len(listing) THEN listing[Min(idx) + 1] ELSE << <<>> >>
         IN
         IF Len(fls) < 7 \/ fls[7] = <<>> \/ ~AllDigits(fls[7]) THEN STR_CRASH
         ELSE IF p.priority # ParseInt(fls[7], 10) THEN STR_NONE
         ELSE IF Len(fl_match) < 4 \/ ~IsHex(BeforeSlash(fl_match[4])) THEN STR_CRASH
         ELSE IF p.port # ParseInt(BeforeSlash(fl_match[4]), 16) THEN STR_CHANGE
         ELSE STR_MATCH

\* _class_exists on the class listing
Class_exists(p, listing) == InListing(p.flowid, listing)

----------------------------------------------------------------------------
(* Inputs: the descriptors a caller passes and the kernel states a run can  *)
(* find.  Both are small sets that hold every case the validators and the   *)
(* inspectors tell apart.                                                   *)

H(major, minor) == major \o <<":">> \o minor

Rate10mbit == <<"1", "0", "m", "b", "i", "t">>

Rate10Mbit == <<"1", "0", "M", "b", "i", "t">>

Rate5mbit == <<"5", "m", "b", "i", "t">>

RateNoNumber == <<"m", "b", "i", "t">>

RateNoUnit == <<"1", "0">>

Common(device, state) ==
    [device |-> device, state |-> state, handle |-> <<>>, qdisc |-> <<>>,
     discipline |-> <<>>, parent |-> <<>>, classid |-> <<>>, rate |-> <<>>, ceil |-> <<>>,
     flowid |-> <<>>, priority |-> 0, port |-> 0, cgroup |-> FALSE]

Devices == {W("eth0"), W("eth9")}

States == {"present", "absent"}

Handle_1_0 == H(<<"1">>, <<"0">>)

Id_1_1 == H(<<"1">>, <<"1">>)

Id_1_10 == H(<<"1">>, <<"1", "0">>)

\* descriptors every validator accepts
GoodQdiscDescs ==
    {[Common(W("eth0"), st) EXCEPT !.handle = h, !.qdisc = ROOT, !.discipline = d] :
        st \in States, h \in {Handle_1_0, H(<<"2">>, <<>>)}, d \in {HTB, PFIFO_FAST}}

GoodClassDescs ==
    {[Common(W("eth0"), st) EXCEPT !.parent = Handle_1_0, !.classid = cid,
                                   !.discipline = HTB, !.rate = r, !.ceil = c] :
        st \in States, cid \in {Id_1_1, Id_1_10}, r \in {Rate10mbit, Rate5mbit},
        c \in {PyNone, Rate10Mbit}}

GoodFilterDescs ==
    {[Common(W("eth0"), st) EXCEPT !.parent = Handle_1_0, !.flowid = fid, !.priority = prio,
                                   !.port = port, !.cgroup = cg,
                                   !.handle = IF cg THEN <<"8", ":">> ELSE PyNone] :
        st \in States, fid \in {Id_1_1, Id_1_10}, prio \in {5, 8},
        port \in {80, 22, 65536}, cg \in BOOLEAN}

PlainQdisc(st) ==
    [Common(W("eth0"), st) EXCEPT !.handle = Handle_1_0, !.qdisc = ROOT, !.discipline = HTB]

PlainClass(st) ==
    [Common(W("eth0"), st) EXCEPT !.parent = Handle_1_0, !.classid = Id_1_1,
                                  !.discipline = HTB, !.rate = Rate10mbit, !.ceil = PyNone]

PlainFilter(st) ==
    [Common(W("eth0"), st) EXCEPT !.parent = Handle_1_0, !.flowid = Id_1_1, !.priority = 5,
                                  !.port = 80, !.handle = PyNone]

\* descriptors with one parameter a validator rejects
BadQdiscDescs ==
    UNION {{[PlainQdisc(st) EXCEPT !.device = W("eth9")],
            [PlainQdisc(st) EXCEPT !.handle = Id_1_1],
            [PlainQdisc(st) EXCEPT !.handle = <<"1">>]} : st \in States}

BadClassDescs ==
    UNION {{[PlainClass(st) EXCEPT !.device = W("eth9")],
            [PlainClass(st) EXCEPT !.parent = Id_1_1],
            [PlainClass(st) EXCEPT !.parent = H(<<"2">>, <<"0">>)],
            [PlainClass(st) EXCEPT !.classid = Handle_1_0],
            [PlainClass(st) EXCEPT !.classid = H(<<"2">>, <<"1">>)],
            [PlainClass(st) EXCEPT !.rate = RateNoNumber],
            [PlainClass(st) EXCEPT !.rate = RateNoUnit],
            [PlainClass(st) EXCEPT !.ceil = RateNoNumber],
            [PlainClass(st) EXCEPT !.ceil = RateNoUnit]} : st \in States}

BadFilterDescs ==
    UNION {{[PlainFilter(st) EXCEPT !.device = W("eth9")],
            [PlainFilter(st) EXCEPT !.parent = Id_1_1],
            [PlainFilter(st) EXCEPT !.parent = H(<<"2">>, <<"0">>)],
            [PlainFilter(st) EXCEPT !.flowid = Handle_1_0],
            [PlainFilter(st) EXCEPT !.flowid = H(<<"2">>, <<"1">>)]} : st \in States}

\* the descriptors of kind k
Descs(k) ==
    IF k = "qdisc" THEN GoodQdiscDescs \cup BadQdiscDescs
    ELSE IF k = "class" THEN GoodClassDescs \cup BadClassDescs
    ELSE GoodFilterDescs \cup BadFilterDescs

Kinds == {"qdisc", "class", "filter"}

Htb(major) == [disc |-> HTB, handle |-> major \o <<":">>, attach |-> <<ROOT>>]

Class(minor, under, rate) ==
    [classid |-> H(<<"1">>, minor), parent |-> under,
     rate |-> Convert(rate), ceil |-> Convert(rate)]

U32(prio, port, minor) ==
    [kind |-> "u32", parent |-> <<"1", ":">>, prio |-> prio, port |-> port,
     flowid |-> H(<<"1">>, minor), handle |-> <<>>]

Cgroup(prio) ==
    [kind |-> "cgroup", parent |-> <<"1", ":">>, prio |-> prio, port |-> 0,
     flowid |-> <<>>, handle |-> <<"8">>]

Cls1 == Class(<<"1">>, ROOT, Rate10mbit)

Cls10 == Class(<<"1", "0">>, ROOT, Rate5mbit)

\* class 1:10 as a child of class 1:1
Cls10Under1 == Class(<<"1", "0">>, H(<<"1">>, <<"1">>), Rate5mbit)

Kernel(qs, cs, fs) == [qdiscs |-> qs, classes |-> cs, filters |-> fs]

Kernels ==
    {Kernel(<<DefaultRoot>>, <<>>, <<>>),
     Kernel(<<DefaultRoot, IngressQdisc>>, <<>>, <<>>),
     Kernel(<<[disc |-> PFIFO_FAST, handle |-> <<"1", ":">>, attach |-> <<ROOT>>]>>, <<>>, <<>>),
     Kernel(<<Htb(<<"2">>)>>, <<>>, <<>>),
     Kernel(<<Htb(<<"1">>), IngressQdisc>>, <<>>, <<>>)}
    \cup
    {Kernel(<<Htb(<<"1">>)>>, cs, <<>>) :
        cs \in {<<>>, <<Cls1>>, <<Cls10>>, <<Cls1, Cls10>>, <<Cls10, Cls1>>, <<Cls1, Cls10Under1>>}}
    \cup
    {Kernel(<<Htb(<<"1">>)>>, <<Cls1, Cls10>>, fs) :
        fs \in {<<U32(5, 80, <<"1">>)>>, <<U32(3, 22, <<"1">>), U32(5, 80, <<"1">>)>>,
                <<U32(5, 80, <<"1", "0">>)>>, <<Cgroup(8)>>}}

\* the kernel states a host without netifaces is started in
FewKernels ==
    {Kernel(<<DefaultRoot>>, <<>>, <<>>),
     Kernel(<<Htb(<<"1">>)>>, <<Cls1, Cls10>>, <<U32(5, 80, <<"1">>)>>)}

----------------------------------------------------------------------------
(* main() of the three modules, one action per step *)

Running == [status |-> "running", msg |-> "", rc |-> 0, failed |-> 0]

NoPrev ==
    [kind |-> "none", desc |-> Common(<<>>, ""), check_mode |-> FALSE, status |-> "none",
     mutations |-> <<>>, command |-> <<>>, current |-> "", shows |-> FALSE]

NoTwin ==
    [desc |-> Common(<<>>, ""), current |-> "", log |-> <<>>, command |-> <<>>,
     outcome |-> [Running EXCEPT !.status = "none"], start |-> Kernel(<<>>, <<>>, <<>>)]

\* whether the kernel holds the resource that descriptor p of kind k asks for
Shows(k, p, kern) ==
    IF k = "qdisc"
    THEN /\ RootQdisc(kern).disc = p.discipline
         /\ RootQdisc(kern).handle = QdiscHandleOf(p.handle)
    ELSE IF k = "class"
    THEN \E i \in 1..Len(kern.classes) :
            /\ kern.classes[i].classid = p.classid
            /\ kern.classes[i].rate = Convert(p.rate)
            /\ kern.classes[i].ceil = Convert(p.ceil)
    ELSE \E i \in 1..Len(kern.filters) :
            LET f == kern.filters[i] IN
            /\ f.prio = p.priority
            /\ IF p.cgroup THEN f.kind = "cgroup" /\ f.handle \o <<":">> = p.handle
               ELSE f.kind = "u32" /\ f.port = p.port /\ f.flowid = p.flowid

RECURSIVE Mutations(_)
Mutations(l) ==
    IF Len(l) = 0 THEN <<>>
    ELSE (IF IsMutating(l[1].cmd) THEN <<l[1]>> ELSE <<>>) \o Mutations(Tail(l))

Init ==
    /\ \/ netifaces = TRUE /\ kernel \in Kernels
       \/ netifaces = FALSE /\ kernel \in FewKernels
    /\ kind = "none"
    /\ desc = Common(<<>>, "")
    /\ params = Common(<<>>, "")
    /\ check_mode = FALSE
    /\ pc = "done"
    /\ action = ""
    /\ current = ""
    /\ log = <<>>
    /\ command = <<>>
    /\ outcome = [Running EXCEPT !.status = "none"]
    /\ prev = NoPrev
    /\ nruns = 0
    /\ start = kernel
    /\ twin = NoTwin

\* the caller runs a module: the first run with any descriptor, in check mode
\* or not; a later run applies the descriptor of the run before it
Start(k, d, check) ==
    /\ pc = "done"
    /\ nruns < MaxRuns
    /\ nruns > 0 => (k = kind /\ d = desc /\ check = FALSE)
    /\ nruns' = nruns + 1
    /\ prev' = IF nruns = 0 THEN NoPrev
               ELSE [kind |-> kind, desc |-> desc, check_mode |-> check_mode,
                     status |-> outcome.status, mutations |-> Mutations(log),
                     command |-> command, current |-> current,
                     shows |-> Shows(kind, params, kernel)]
    /\ kind' = k
    /\ desc' = d
    /\ params' = d
    /\ check_mode' = check
    /\ action' = Set_action(d.state)
    /\ current' = ""
    /\ log' = <<>>
    /\ command' = <<>>
    /\ outcome' = Running
    /\ pc' = "validate_device"
    /\ start' = kernel
    /\ twin' = NoTwin
    /\ UNCHANGED <<kernel, netifaces>>

\* module.run_command(cmd) returning rc
Run_command(cmd, rc) ==
    /\ rc \in ExitCodes(cmd, kernel)
    /\ log' = Append(log, [cmd |-> cmd, rc |-> rc])
    /\ kernel' = After(cmd, kernel, rc)

\* module.fail_json(msg=err, rc=rco) after the run_command just logged
Fail_tool(rc) ==
    /\ outcome' = [status |-> "failed", msg |-> "stderr", rc |-> rc, failed |-> Len(log')]
    /\ pc' = "done"

\* module.fail_json(<parameter>, msg=msg)
Fail_json(msg) ==
    /\ outcome' = [status |-> "failed", msg |-> msg, rc |-> 0, failed |-> 0]
    /\ pc' = "done"

\* module.exit_json(...)
Exit_json(status) ==
    /\ outcome' = [status |-> status, msg |-> "", rc |-> 0, failed |-> 0]
    /\ pc' = "done"

\* an exception no one catches
Traceback ==
    /\ outcome' = [status |-> "traceback", msg |-> "", rc |-> 0, failed |-> 0]
    /\ pc' = "done"

Goto(label) == pc' = label /\ UNCHANGED outcome

ValidateDevice ==
    /\ pc = "validate_device"
    /\ \/ /\ netifaces
          /\ UNCHANGED <<log, kernel>>
          /\ IF Validate_device(params) THEN Goto("validate_handle")
             ELSE Fail_json("Device doesn't exist on machine")
       \/ /\ ~netifaces
          /\ \E rc \in 0..MaxRc :
                /\ Run_command(IpACommand, rc)
                /\ IF rc # 0 THEN Fail_tool(rc)
                   ELSE IF Validate_device(params) THEN Goto("validate_handle")
                   ELSE Fail_json("Device doesn't exist on machine")
    /\ UNCHANGED <<netifaces, kind, desc, params, check_mode, action, current, command,
                   prev, nruns, start, twin>>

ValidateHandle ==
    /\ pc = "validate_handle"
    /\ IF kind = "qdisc"
       THEN IF Validate_handle(params.handle) THEN Goto("check_mode")
            ELSE Fail_json("Invalid handle syntax")
       ELSE IF Validate_handle(params.parent) THEN Goto("validate_parent")
            ELSE Fail_json("Invalid parent handle")
    /\ UNCHANGED <<kernel, netifaces, kind, desc, params, check_mode, action, current,
                   log, command, prev, nruns, start, twin>>

ValidateParent ==
    /\ pc = "validate_parent"
    /\ \E rc \in 0..MaxRc :
          LET cmd == Get_current_command("qdisc", params)
          IN /\ Run_command(cmd, rc)
             /\ IF rc # 0 THEN Fail_tool(rc)
                ELSE IF Validate_parent_raises(params, QdiscListing(kernel)) THEN Traceback
                ELSE IF Validate_parent(params, QdiscListing(kernel))
                     THEN Goto("validate_classid")
                ELSE Fail_json("Parent handle does not exist.")
    /\ UNCHANGED <<netifaces, kind, desc, params, check_mode, action, current, command,
                   prev, nruns, start, twin>>

\* mutant: the verdict of validate_classid is not looked at
ValidateClassid_unchecked ==
    /\ pc = "validate_classid"
    /\ Goto(IF kind = "class" THEN "validate_rate" ELSE "class_exists")
    /\ UNCHANGED <<kernel, netifaces, kind, desc, params, check_mode, action, current,
                   log, command, prev, nruns, start, twin>>

ValidateClassid ==
    /\ pc = "validate_classid"
    /\ LET field == IF kind = "class" THEN "classid" ELSE "flowid"
       IN IF Validate_classid_raises(params, field) THEN Traceback
          ELSE IF Validate_classid(params, field) THEN Goto(IF kind = "class" THEN "validate_rate" ELSE "class_exists")
          ELSE Fail_json(IF kind = "class" THEN "Invalid classid." ELSE "Invalid flowid.")
    /\ UNCHANGED <<kernel, netifaces, kind, desc, params, check_mode, action, current,
                   log, command, prev, nruns, start, twin>>

ValidateRate ==
    /\ pc = "validate_rate"
    /\ LET r == Validate_rate(params)
       IN IF r[1] THEN Goto("validate_ceil") ELSE Fail_json(r[2])
    /\ UNCHANGED <<kernel, netifaces, kind, desc, params, check_mode, action, current,
                   log, command, prev, nruns, start, twin>>

\* mutant: ceil is left as it is when it is not given
ValidateCeil_nodefault ==
    /\ pc = "validate_ceil"
    /\ UNCHANGED params
    /\ IF Falsy(params.ceil) THEN Goto("check_mode")
       ELSE LET r == Validate_ceil(params)
            IN IF r[1] THEN Goto("check_mode") ELSE Fail_json(r[2])
    /\ UNCHANGED <<kernel, netifaces, kind, desc, check_mode, action, current,
                   log, command, prev, nruns, start, twin>>

\* ceil takes the value of rate when it is not given, and is validated otherwise
ValidateCeil ==
    /\ pc = "validate_ceil"
    /\ IF Falsy(params.ceil)
       THEN /\ params' = [params EXCEPT !.ceil = params.rate]
            /\ Goto("check_mode")
       ELSE /\ UNCHANGED params
            /\ LET r == Validate_ceil(params)
               IN IF r[1] THEN Goto("check_mode") ELSE Fail_json(r[2])
    /\ UNCHANGED <<kernel, netifaces, kind, desc, check_mode, action, current,
                   log, command, prev, nruns, start, twin>>

ClassExists ==
    /\ pc = "class_exists"
    /\ \E rc \in 0..MaxRc :
          LET cmd == Get_current_command("class", params)
              ok == Class_exists(params, ClassListing(kernel))
          IN /\ Run_command(cmd, rc)
             /\ IF rc # 0 THEN Fail_tool(rc)
                ELSE IF ok THEN Goto("check_mode")
                ELSE Fail_json("Cannot create a filter for a non existant class")
    /\ UNCHANGED <<netifaces, kind, desc, params, check_mode, action, current, command,
                   prev, nruns, start, twin>>

\* mutant: module.check_mode is not looked at
CheckMode_ignored ==
    /\ pc = "check_mode"
    /\ Goto("check_current")
    /\ UNCHANGED <<kernel, netifaces, kind, desc, params, check_mode, action, current,
                   log, command, prev, nruns, start, twin>>

\* if module.check_mode: build the command, exit_json(skipped=True)
CheckMode ==
    /\ pc = "check_mode"
    /\ IF check_mode
       THEN /\ command' = IF kind = "qdisc" THEN Build_qdisc_command(params, action)
                          ELSE IF kind = "class" THEN Build_class_command(params, action)
                          ELSE Build_filter_command(params, action)
            /\ Exit_json("skipped")
       ELSE /\ UNCHANGED command
            /\ Goto("check_current")
    /\ UNCHANGED <<kernel, netifaces, kind, desc, params, check_mode, action, current,
                   log, prev, nruns, start, twin>>

Inspect(k, p, kern) ==
    IF k = "qdisc" THEN Check_current_qdisc(p, QdiscListing(kern))
    ELSE IF k = "class" THEN Check_current_class(p, ClassListing(kern))
    ELSE Check_current_filter(p, FilterListing(kern))

CheckCurrent ==
    /\ pc = "check_current"
    /\ \E rc \in 0..MaxRc :
          LET cmd == Get_current_command(kind, params)
              verdict == Inspect(kind, params, kernel)
          IN /\ Run_command(cmd, rc)
             /\ IF rc # 0 THEN Fail_tool(rc) /\ UNCHANGED current
                ELSE IF verdict = STR_CRASH THEN Traceback /\ UNCHANGED current
                ELSE Goto("decide") /\ current' = verdict
    /\ UNCHANGED <<netifaces, kind, desc, params, check_mode, action, command, prev, nruns, start, twin>>

Present == params.state = "present"

NothingThere == current \in {STR_DEFAULT, STR_NONE}

\* current == MATCH and state == present, or nothing there and state == absent:
\* exit_json(changed=False)
ExitUnchanged ==
    /\ pc = "decide"
    /\ \/ current = STR_MATCH /\ Present
       \/ NothingThere /\ ~Present
    /\ Exit_json("unchanged")
    /\ UNCHANGED <<kernel, netifaces, kind, desc, params, check_mode, action, current,
                   log, command, prev, nruns, start, twin>>

\* mutant: the existing resource is not deleted before the add
DeleteExisting_skipped ==
    /\ pc = "decide"
    /\ kind \in {"qdisc", "filter"}
    /\ current = STR_CHANGE /\ Present
    /\ Goto("execute")
    /\ UNCHANGED <<kernel, netifaces, kind, desc, params, check_mode, action, current,
                   log, command, prev, nruns, start, twin>>

\* mutant: the exit code of the del command is not looked at
DeleteExisting_ignoring_rc ==
    /\ pc = "decide"
    /\ kind \in {"qdisc", "filter"}
    /\ current = STR_CHANGE /\ Present
    /\ \E rc \in 0..MaxRc :
          LET cmd == IF kind = "qdisc" THEN Build_qdisc_command(params, "del")
                     ELSE Build_filter_command(params, "del")
          IN /\ Run_command(cmd, rc)
             /\ Goto("execute")
    /\ UNCHANGED <<netifaces, kind, desc, params, check_mode, action, current, command,
                   prev, nruns, start, twin>>

\* qdisc and filter: current == CHANGE and state == present: run the del command
DeleteExisting ==
    /\ pc = "decide"
    /\ kind \in {"qdisc", "filter"}
    /\ current = STR_CHANGE /\ Present
    /\ \E rc \in 0..MaxRc :
          LET cmd == IF kind = "qdisc" THEN Build_qdisc_command(params, "del")
                     ELSE Build_filter_command(params, "del")
          IN /\ Run_command(cmd, rc)
             /\ IF rc # 0 THEN Fail_tool(rc) ELSE Goto("execute")
    /\ UNCHANGED <<netifaces, kind, desc, params, check_mode, action, current, command,
                   prev, nruns, start, twin>>

\* mutant: the action stays the one of the requested state
ChooseChange_kept ==
    /\ pc = "decide"
    /\ kind = "class"
    /\ current = STR_CHANGE /\ Present
    /\ Goto("execute")
    /\ UNCHANGED <<kernel, netifaces, kind, desc, params, check_mode, action, current,
                   log, command, prev, nruns, start, twin>>

\* class: current == CHANGE and state == present: action = "change"
ChooseChange ==
    /\ pc = "decide"
    /\ kind = "class"
    /\ current = STR_CHANGE /\ Present
    /\ action' = "change"
    /\ Goto("execute")
    /\ UNCHANGED <<kernel, netifaces, kind, desc, params, check_mode, current,
                   log, command, prev, nruns, start, twin>>

\* none of the special cases: fall through to the command
Proceed ==
    /\ pc = "decide"
    /\ \/ NothingThere /\ Present
       \/ current \in {STR_MATCH, STR_CHANGE} /\ ~Present
    /\ Goto("execute")
    /\ UNCHANGED <<kernel, netifaces, kind, desc, params, check_mode, action, current,
                   log, command, prev, nruns, start, twin>>

\* the command main() runs last
FinalCommand(k, p, act) ==
    IF k = "qdisc" THEN Build_qdisc_command(p, act)
    ELSE IF k = "class" THEN Build_class_command(p, act)
    ELSE IF p.cgroup # TRUE THEN Build_filter_command(p, act)
    ELSE Build_filter_cgroup_command(p, act)

Execute ==
    /\ pc = "execute"
    /\ \E rc \in 0..MaxRc :
          /\ Run_command(FinalCommand(kind, params, action), rc)
          /\ IF rc # 0 THEN Fail_tool(rc) ELSE Exit_json("changed")
    /\ UNCHANGED <<netifaces, kind, desc, params, check_mode, action, current, command,
                   prev, nruns, start, twin>>

Next ==
    \/ \E k \in Kinds : \E d \in Descs(k) : \E check \in BOOLEAN : Start(k, d, check)
    \/ ValidateDevice
    \/ ValidateHandle
    \/ ValidateParent
    \/ ValidateClassid
    \/ ValidateRate
    \/ ValidateCeil
    \/ ClassExists
    \/ CheckMode
    \/ CheckCurrent
    \/ ExitUnchanged
    \/ DeleteExisting
    \/ ChooseChange
    \/ Proceed
    \/ Execute

Spec == Init /\ [][Next]_vars

----------------------------------------------------------------------------
(* Two runs from the same kernel state: the second run is started on the    *)
(* kernel state the first one started from, with a descriptor that differs  *)
(* from the first one's in the one parameter under comparison.              *)

\* the ports a caller passes
Ports == {80, 22, 65536}

\* the descriptors paired with descriptor d of kind k: a class descriptor
\* without ceil and the one with ceil = rate; a cgroup filter descriptor and
\* the ones with another port
Variants(k, d) ==
    IF k = "class"
    THEN IF Falsy(d.ceil) THEN {[d EXCEPT !.ceil = d.rate]}
         ELSE IF d.ceil = d.rate THEN {[d EXCEPT !.ceil = PyNone]}
         ELSE {}
    ELSE IF k = "filter" /\ d.cgroup = TRUE
    THEN {[d EXCEPT !.port = q] : q \in Ports \ {d.port}}
    ELSE {}

\* the caller runs the same module with descriptor d on a host in the state
\* the run before started from
StartTwin(d) ==
    /\ pc = "done"
    /\ nruns > 0 /\ nruns < MaxRuns
    /\ d \in Variants(kind, desc)
    /\ nruns' = nruns + 1
    /\ prev' = [kind |-> kind, desc |-> desc, check_mode |-> check_mode,
                status |-> outcome.status, mutations |-> Mutations(log),
                command |-> command, current |-> current,
                shows |-> Shows(kind, params, kernel)]
    /\ twin' = [desc |-> desc, current |-> current, log |-> log, command |-> command,
                outcome |-> outcome, start |-> start]
    /\ kernel' = start
    /\ desc' = d
    /\ params' = d
    /\ action' = Set_action(d.state)
    /\ current' = ""
    /\ log' = <<>>
    /\ command' = <<>>
    /\ outcome' = Running
    /\ pc' = "validate_device"
    /\ UNCHANGED <<netifaces, kind, check_mode, start>>

NextTwin ==
    \/ nruns = 0 /\ \E k \in Kinds : \E d \in Descs(k) : \E check \in BOOLEAN : Start(k, d, check)
    \/ \E d \in Variants(kind, desc) : StartTwin(d)
    \/ ValidateDevice
    \/ ValidateHandle
    \/ ValidateParent
    \/ ValidateClassid
    \/ ValidateRate
    \/ ValidateCeil
    \/ ClassExists
    \/ CheckMode
    \/ CheckCurrent
    \/ ExitUnchanged
    \/ DeleteExisting
    \/ ChooseChange
    \/ Proceed
    \/ Execute

SpecTwin == Init /\ [][NextTwin]_vars

----------------------------------------------------------------------------
(* Properties *)

Done == pc = "done" /\ kind # "none"

\* every query (show, ip a) of the run exited 0
QueriesSucceeded == \A i \in 1..Len(log) : ~IsMutating(log[i].cmd) => log[i].rc = 0

\* this run repeats, with check mode off both times, the run before it
Rerun == nruns >= 2 /\ ~check_mode /\ ~prev.check_mode /\ prev.kind = kind /\ prev.desc = desc

\* C1: qdisc and class idempotence.  When a run of the qdisc or class module
\* with state=present ended "changed" or "unchanged" and left the requested
\* record in the kernel, a second run with the same descriptor (its queries
\* succeeding) runs no add, change or del command and ends "unchanged".
C1_Idempotent ==
    (/\ Done /\ Rerun /\ kind \in {"qdisc", "class"}
     /\ desc.state = "present"
     /\ prev.status \in {"changed", "unchanged"}
     /\ prev.shows
     /\ QueriesSucceeded)
    => (Mutations(log) = <<>> /\ outcome.status = "unchanged")

\* C2: filter idempotence.  When the class of the flowid exists and a run of the
\* filter module with state=present ended "changed" and left the filter in the
\* kernel, a second run with the same descriptor (its queries succeeding) runs no
\* add or del command and ends "unchanged".
C2_FilterIdempotent ==
    (/\ Done /\ Rerun /\ kind = "filter"
     /\ desc.state = "present"
     /\ ClassIdx(kernel, desc.flowid) # {}
     /\ prev.status = "changed"
     /\ prev.shows
     /\ QueriesSucceeded)
    => (Mutations(log) = <<>> /\ outcome.status = "unchanged")

\* every validator of the run's module accepts descriptor d on kernel state kern
Valid(k, d, kern) ==
    /\ Validate_device(d)
    /\ IF k = "qdisc" THEN Validate_handle(d.handle)
       ELSE /\ Validate_handle(d.parent)
            /\ ~Validate_parent_raises(d, QdiscListing(kern))
            /\ Validate_parent(d, QdiscListing(kern))
            /\ ~Validate_classid_raises(d, IF k = "class" THEN "classid" ELSE "flowid")
            /\ Validate_classid(d, IF k = "class" THEN "classid" ELSE "flowid")
            /\ IF k = "class"
               THEN Validate_rate(d)[1] /\ (Falsy(d.ceil) \/ Validate_ceil(d)[1])
               ELSE Class_exists(d, ClassListing(kern))

\* the actions (add, change, del) of the mutating commands of a log, in order
Actions(l) == LET m == Mutations(l) IN [i \in 1..Len(m) |-> m[i].cmd[3][1]]

AllExitedZero(l) == \A i \in 1..Len(l) : l[i].rc = 0

\* C3: check mode does not mutate.  During a run in check mode no add, change or
\* del command is run and the kernel state does not change; the run never ends
\* "changed" or "unchanged", and it ends "skipped" when every validator accepts
\* the descriptor and its queries succeed.
C3_CheckModeNonMutating ==
    [][check_mode' =>
         /\ kernel' = kernel
         /\ Mutations(log') = <<>>
         /\ outcome'.status \notin {"changed", "unchanged"}
         /\ (/\ pc' = "done"
             /\ Valid(kind', desc', kernel')
             /\ AllExitedZero(log')) => outcome'.status = "skipped"]_vars

C3_Witness ==
    /\ Done /\ check_mode /\ kind = "filter"
    /\ outcome.status = "skipped"
    /\ Len(log) >= 2
    /\ Inspect(kind, params, kernel) = STR_CHANGE

\* C4: the command built in check mode is the command run last.  When a run in
\* check mode is followed by a run of the same descriptor with check mode off
\* (on the kernel state the check-mode run saw) that ends "changed", the command
\* built in check mode is the last command of that run.
C4_CheckModeCommand ==
    (/\ Done /\ nruns >= 2 /\ ~check_mode
     /\ prev.check_mode /\ prev.status = "skipped" /\ prev.kind = kind /\ prev.desc = desc
     /\ outcome.status = "changed")
    => prev.command = log[Len(log)].cmd

\* C5: validation precedes mutation.  The first add, change or del command of a
\* run is run only when every validator accepts the descriptor, and a run whose
\* descriptor some validator rejects ends in failure.
C5_ValidationPrecedesMutation ==
    [][/\ (Mutations(log) = <<>> /\ Mutations(log') # <<>>) => Valid(kind, desc, kernel)
       /\ (/\ pc' = "done" /\ pc # "done"
           /\ ~Valid(kind, desc, kernel)) => (outcome'.status = "failed" /\ Mutations(log') = <<>>)
      ]_vars

C5_Witness ==
    /\ Done /\ ~check_mode /\ kind = "class" /\ desc.state = "present"
    /\ ~Valid(kind, desc, kernel)
    /\ Len(log) >= 1 /\ AllExitedZero(log) /\ Mutations(log) = <<>>
    /\ outcome.status = "failed" /\ outcome.msg = "Invalid classid."

\* C6: filter precondition.  A filter run whose descriptor passes the earlier
\* validators, on a kernel without a class whose classid is the flowid, fails
\* with the "non existant class" message and runs no add or del command (its
\* queries succeeding).
C6_FilterPrecondition ==
    (/\ Done /\ kind = "filter"
     /\ Validate_device(desc) /\ Validate_handle(desc.parent)
     /\ Validate_parent(desc, QdiscListing(kernel)) /\ Validate_classid(desc, "flowid")
     /\ QueriesSucceeded
     /\ ClassIdx(kernel, desc.flowid) = {})
    => (/\ outcome.status = "failed"
        /\ outcome.msg = "Cannot create a filter for a non existant class"
        /\ Mutations(log) = <<>>)

\* C7: qdisc decision policy.  A qdisc run with check mode off whose inspector
\* returned runs: on present+MATCH nothing (unchanged); on present+CHANGE del,
\* then add only when del exited 0; on present+DEFAULT add; on absent+DEFAULT
\* nothing (unchanged); on absent+MATCH or CHANGE one del; and it ends "changed"
\* when it ran a command and every command exited 0.
C7_QdiscPolicy ==
    (Done /\ kind = "qdisc" /\ ~check_mode /\ current # "")
    => LET m == Mutations(log)
           acts == Actions(log)
       IN /\ \A i \in 1..Len(m) : m[i].cmd[2] = W("qdisc") /\ m[i].cmd[6] = desc.qdisc
          /\ IF desc.state = "present"
             THEN CASE current = STR_MATCH -> acts = <<>> /\ outcome.status = "unchanged"
                    [] current = STR_CHANGE ->
                          /\ Len(m) >= 1
                          /\ acts = IF m[1].rc = 0 THEN <<"del", "add">> ELSE <<"del">>
                    [] current = STR_DEFAULT -> acts = <<"add">>
                    [] OTHER -> FALSE
             ELSE CASE current = STR_DEFAULT -> acts = <<>> /\ outcome.status = "unchanged"
                    [] current \in {STR_MATCH, STR_CHANGE} -> acts = <<"del">>
                    [] OTHER -> FALSE
          /\ (m # <<>> /\ AllExitedZero(log)) => outcome.status = "changed"

C7_Witness ==
    /\ Done /\ kind = "qdisc" /\ ~check_mode
    /\ desc.state = "present" /\ current = STR_CHANGE
    /\ Actions(log) = <<"del", "add">>
    /\ outcome.status = "changed"

\* C8: class decision policy.  A class run with check mode off whose inspector
\* returned runs at most one mutating command: on present+MATCH none
\* (unchanged); on present+CHANGE one change command with parent, classid,
\* discipline, rate and ceil; on present+NONE one add; on absent+NONE none
\* (unchanged); on absent+MATCH or CHANGE one del.
C8_ClassPolicy ==
    (Done /\ kind = "class" /\ ~check_mode /\ current # "")
    => LET m == Mutations(log)
           acts == Actions(log)
       IN /\ Len(m) <= 1
          /\ \A i \in 1..Len(m) :
                /\ m[i].cmd[2] = W("class")
                /\ ArgAfter(m[i].cmd, "parent") = desc.parent
                /\ ArgAfter(m[i].cmd, "classid") = desc.classid
          /\ IF desc.state = "present"
             THEN CASE current = STR_MATCH -> acts = <<>> /\ outcome.status = "unchanged"
                    [] current = STR_CHANGE ->
                          /\ acts = <<"change">>
                          /\ m[1].cmd[10] = desc.discipline
                          /\ ArgAfter(m[1].cmd, "rate") = desc.rate
                          /\ ArgAfter(m[1].cmd, "ceil") =
                                (IF Falsy(desc.ceil) THEN desc.rate ELSE desc.ceil)
                    [] current = STR_NONE -> acts = <<"add">>
                    [] OTHER -> FALSE
             ELSE CASE current = STR_NONE -> acts = <<>> /\ outcome.status = "unchanged"
                    [] current \in {STR_MATCH, STR_CHANGE} -> acts = <<"del">>
                    [] OTHER -> FALSE

C8_Witness ==
    /\ Done /\ kind = "class" /\ ~check_mode
    /\ desc.state = "present" /\ current = STR_CHANGE
    /\ Actions(log) = <<"change">>
    /\ outcome.status = "changed"

\* the u32 filters of the kernel whose flowid holds the text `flowid`, by
\* position in the listing
Found(flowid, kern) ==
    {i \in 1..Len(kern.filters) :
        kern.filters[i].kind = "u32" /\ InToken(flowid, kern.filters[i].flowid)}

\* C9: filter decision policy.  The observed state is NONE when the priority of
\* the found record is not the desired one, and CHANGE only when the priority is
\* the desired one and the port is not.  A filter run with check mode off whose
\* inspector returned runs: on present+MATCH nothing (unchanged); on
\* present+CHANGE del, then add only when del exited 0; on absent+NONE nothing
\* (unchanged); on present+NONE add; on absent+MATCH or CHANGE one del.
C9_FilterPolicy ==
    /\ (kind = "filter" /\ pc = "decide")
       => LET found == Found(desc.flowid, kernel) IN
          /\ (found # {} /\ kernel.filters[Min(found)].prio # desc.priority)
                => current = STR_NONE
          /\ current = STR_CHANGE
                => /\ found # {}
                   /\ kernel.filters[Min(found)].prio = desc.priority
                   /\ kernel.filters[Min(found)].port # desc.port
    /\ (Done /\ kind = "filter" /\ ~check_mode /\ current # "")
       => LET m == Mutations(log)
              acts == Actions(log)
          IN /\ \A i \in 1..Len(m) : m[i].cmd[2] = W("filter")
             /\ IF desc.state = "present"
                THEN CASE current = STR_MATCH -> acts = <<>> /\ outcome.status = "unchanged"
                       [] current = STR_CHANGE ->
                             /\ Len(m) >= 1
                             /\ acts = IF m[1].rc = 0 THEN <<"del", "add">> ELSE <<"del">>
                       [] current = STR_NONE -> acts = <<"add">>
                       [] OTHER -> FALSE
                ELSE CASE current = STR_NONE -> acts = <<>> /\ outcome.status = "unchanged"
                       [] current \in {STR_MATCH, STR_CHANGE} -> acts = <<"del">>
                       [] OTHER -> FALSE

C9_Witness ==
    /\ Done /\ kind = "filter" /\ ~check_mode
    /\ desc.state = "present" /\ current = STR_CHANGE
    /\ Actions(log) = <<"del", "add">>
    /\ outcome.status = "changed"

\* C10: a failing tool ends the run.  A command that exited non-zero is the last
\* command of its run, and the run has failed with the stderr text and the exit
\* code of that command.
C10_ToolFailureAborts ==
    \A i \in 1..Len(log) :
        log[i].rc # 0
        => /\ i = Len(log)
           /\ pc = "done"
           /\ outcome = [status |-> "failed", msg |-> "stderr", rc |-> log[i].rc, failed |-> i]

C10_Witness ==
    /\ Done
    /\ Len(Mutations(log)) = 2
    /\ Mutations(log)[1].rc = 0 /\ Mutations(log)[2].rc # 0
    /\ outcome.status = "failed"
    /\ ~Shows(kind, params, kernel)

----------------------------------------------------------------------------
\* the verdict the class differ owes: about the records whose classid IS the
\* requested one, with the rates compared as bit rates
RecordsOf(classid, kern) == {i \in 1..Len(kern.classes) : kern.classes[i].classid = classid}

DriftOf(p, kern) ==
    LET recs == RecordsOf(p.classid, kern) IN
    IF recs = {} THEN STR_NONE
    ELSE IF \E i \in recs : /\ kern.classes[i].rate = Convert(p.rate)
                            /\ kern.classes[i].ceil = Convert(p.ceil)
         THEN STR_MATCH
    ELSE STR_CHANGE

\* C11: class drift detection.  Once the class differ has read the listing, its
\* verdict is NONE iff no record has the requested classid, MATCH iff the record
\* of that classid has the requested rate and ceil as bit rates, CHANGE
\* otherwise; and the differ does not raise.
C11_ClassDrift ==
    /\ (kind = "class" /\ pc = "decide") => current = DriftOf(params, kernel)
    /\ ~(/\ Done /\ kind = "class" /\ outcome.status = "traceback"
          /\ log # <<>> /\ log[Len(log)].cmd = Get_current_command("class", params))

----------------------------------------------------------------------------
\* this run and the run before it started from the same kernel state, and this
\* run has ended
Twins ==
    /\ Done /\ nruns >= 2 /\ twin # NoTwin
    /\ prev.kind = kind /\ prev.check_mode = check_mode /\ twin.start = start

\* the tool answered the two runs alike: the same command got the same exit code
SameTool(l1, l2) ==
    \A i \in 1..Len(l1) : (i <= Len(l2) /\ l1[i].cmd = l2[i].cmd) => l1[i].rc = l2[i].rc

\* the two runs cannot be told apart: the same verdict of the inspector, the
\* same tool commands with the same exit codes, the same outcome
SameRun == current = twin.current /\ log = twin.log /\ outcome = twin.outcome

\* a mutating filter command of the cgroup form
IsCgroupForm(cmd) == ~HasArg(cmd, "u32") /\ ~HasArg(cmd, "dport") /\ ~HasArg(cmd, "protocol")

\* C12: the cgroup mode ignores the port.  Two runs of the filter reconciler from
\* the same kernel state, with cgroup descriptors that differ in the port only,
\* reach the same verdict, run the same commands and end alike; and every
\* mutating command of a cgroup run is of the cgroup form.
C12_CgroupIgnoresPort ==
    /\ (/\ Twins /\ kind = "filter" /\ desc.cgroup = TRUE
         /\ desc = [twin.desc EXCEPT !.port = desc.port]
         /\ SameTool(twin.log, log))
        => SameRun
    /\ (kind = "filter" /\ desc.cgroup = TRUE)
        => \A i \in 1..Len(log) : IsMutating(log[i].cmd) => IsCgroupForm(log[i].cmd)

\* the descriptor without ceil and the one with ceil = rate
CeilPair(a, b) == Falsy(a.ceil) /\ b = [a EXCEPT !.ceil = a.rate]

\* C14: ceil defaults to rate.  Two runs of the class reconciler from the same
\* kernel state, one with ceil omitted and one with ceil = rate, the rate being
\* valid, end with the same validation result, the same verdict of the differ,
\* the same tool command lines and the same outcome; the add or change command
\* they run carries the rate as ceil.
C14_CeilDefault ==
    (/\ Twins /\ kind = "class"
     /\ (CeilPair(twin.desc, desc) \/ CeilPair(desc, twin.desc))
     /\ Validate_rate(desc)[1]
     /\ SameTool(twin.log, log))
    => /\ SameRun
       /\ command = twin.command
       /\ \A i \in 1..Len(log) :
             (IsMutating(log[i].cmd) /\ log[i].cmd[3] # W("del"))
             => ArgAfter(log[i].cmd, "ceil") = desc.rate

C14_Witness ==
    /\ Twins /\ kind = "class" /\ ~check_mode
    /\ CeilPair(twin.desc, desc)
    /\ Validate_rate(desc)[1]
    /\ SameTool(twin.log, log)
    /\ current = STR_CHANGE
    /\ outcome.status = "changed"
    /\ Actions(log) = <<"change">>

----------------------------------------------------------------------------
\* the qdisc record the qdisc inspector examines: the one of the last line
InspectedQdisc(kern) == kern.qdiscs[Len(kern.qdiscs)]

\* the major number of the parent, as the listing prints a handle
ParentMajor(p) == Partition(p.parent).head \o <<":">>

\* C13: parent validation.  For a syntactically valid parent, validate_parent
\* succeeds iff the major number of the parent is the major number of the qdisc
\* record the qdisc inspector examines.
C13_ParentValidation ==
    /\ (kind \in {"class", "filter"} /\ pc = "validate_classid")
        => InspectedQdisc(kernel).handle = ParentMajor(params)
    /\ (Done /\ kind \in {"class", "filter"} /\ outcome.msg = "Parent handle does not exist.")
        => InspectedQdisc(kernel).handle # ParentMajor(params)

====
